---------------------------- MODULE Spec2Model ----------------------------
(***************************************************************************)
(* Model of pkg/runner/runner.go: Runner.Process and the functions it      *)
(* calls (categorize, httpRequest) together with the net/url operations    *)
(* the pipeline relies on (Parse, String, QueryUnescape, ParseQuery,       *)
(* Values.Set, Values.Encode).                                             *)
(*                                                                         *)
(* Strings are sequences of tokens.  A token is one character of the URL   *)
(* alphabet ("a", "1", "?", "&", "=", "#", ...), one percent-escape        *)
(* ("%26"), or one indivisible word (the scheme and host "http://h", a     *)
(* file extension ".js", the probe marker "iy3j4h234hjb23234").            *)
(***************************************************************************)
EXTENDS Integers, Sequences, FiniteSets, TLC

(***************************************************************************)
(* Bounds of the model.                                                    *)
(***************************************************************************)
MaxPairs == 2
MaxRuns == 2

(***************************************************************************)
(* String helpers (package strings).                                       *)
(***************************************************************************)
Payload == "iy3j4h234hjb23234"

Contains(s, t) == \E i \in 1..Len(s) : s[i] = t

IndexOf(s, t) ==
    IF Contains(s, t) THEN CHOOSE i \in 1..Len(s) : s[i] = t /\ \A j \in 1..(i-1) : s[j] # t
    ELSE 0

Before(s, t) == IF Contains(s, t) THEN SubSeq(s, 1, IndexOf(s, t) - 1) ELSE s

After(s, t) == IF Contains(s, t) THEN SubSeq(s, IndexOf(s, t) + 1, Len(s)) ELSE << >>

RECURSIVE Split(_, _)
Split(s, t) ==
    IF Contains(s, t) THEN << Before(s, t) >> \o Split(After(s, t), t) ELSE << s >>

RECURSIVE Concat(_)
Concat(ss) == IF ss = << >> THEN << >> ELSE Head(ss) \o Concat(Tail(ss))

Lower(t) == IF t = "A" THEN "a" ELSE IF t = "B" THEN "b" ELSE t

ToLower(s) == [i \in 1..Len(s) |-> Lower(s[i])]

(***************************************************************************)
(* Byte order of the tokens, for sort.Strings in Values.Encode.            *)
(***************************************************************************)
Alphabet == << "LF", " ", "#", "%", "&", "1", "2", "=", "?", "A", "B", "a", "b", Payload >>

Rank(t) == IF Contains(Alphabet, t) THEN IndexOf(Alphabet, t) ELSE Len(Alphabet) + 1

RECURSIVE Less(_, _)
Less(x, y) ==
    IF x = << >> THEN y # << >>
    ELSE IF y = << >> THEN FALSE
    ELSE IF Rank(Head(x)) # Rank(Head(y)) THEN Rank(Head(x)) < Rank(Head(y))
    ELSE Less(Tail(x), Tail(y))

RECURSIVE SortStrings(_)
SortStrings(S) ==
    IF S = {} THEN << >>
    ELSE LET m == CHOOSE x \in S : \A y \in S \ {x} : Less(x, y)
         IN  << m >> \o SortStrings(S \ {m})

Perms(S) == { f \in [1..Cardinality(S) -> S] : \A i, j \in 1..Cardinality(S) : f[i] = f[j] => i = j }

(***************************************************************************)
(* net/url: escaping.                                                      *)
(***************************************************************************)
BadEscape(t) == t = "%"

UnescapeToken(t) ==
    CASE t = "%26" -> "&"
      [] t = "%3D" -> "="
      [] t = "%23" -> "#"
      [] t = "%25" -> "%"
      [] t = "%0A" -> "LF"
      [] t = "+"   -> " "
      [] OTHER     -> t

EscapeToken(t) ==
    CASE t = "&"  -> "%26"
      [] t = "="  -> "%3D"
      [] t = "#"  -> "%23"
      [] t = "%"  -> "%25"
      [] t = "LF" -> "%0A"
      [] t = "?"  -> "%3F"
      [] t = " "  -> "+"
      [] OTHER    -> t

QueryUnescape(s) ==
    [err |-> \E i \in 1..Len(s) : BadEscape(s[i]),
     s   |-> [i \in 1..Len(s) |-> UnescapeToken(s[i])]]

QueryEscape(s) == [i \in 1..Len(s) |-> EscapeToken(s[i])]

(***************************************************************************)
(* net/url: URL parsing and printing.                                      *)
(***************************************************************************)
NilURL == [base |-> << >>, RawQuery |-> << >>, ForceQuery |-> FALSE, Fragment |-> << >>]

Parse(rawURL) ==
    LET u    == Before(rawURL, "#")
        frag == After(rawURL, "#")
        q    == After(u, "?")
    IN  IF Contains(u, "LF") \/ Contains(frag, "%")
        THEN [err |-> TRUE, url |-> NilURL]
        ELSE [err |-> FALSE,
              url |-> [base       |-> Before(u, "?"),
                       RawQuery   |-> q,
                       ForceQuery |-> Contains(u, "?") /\ q = << >>,
                       Fragment   |-> frag]]

String(u) ==
    u.base
    \o (IF u.ForceQuery \/ u.RawQuery # << >> THEN << "?" >> \o u.RawQuery ELSE << >>)
    \o (IF u.Fragment # << >> THEN << "#" >> \o u.Fragment ELSE << >>)

(***************************************************************************)
(* net/url: Values.  A Values map is a function from keys (strings) to     *)
(* non-empty sequences of values (strings).                                *)
(***************************************************************************)
EmptyValues == [k \in {} |-> << >>]

Add(m, k, v) ==
    [x \in DOMAIN m \cup {k} |-> IF x = k THEN (IF k \in DOMAIN m THEN m[k] ELSE << >>) \o << v >>
                                 ELSE m[x]]

Set(m, k, v) == [x \in DOMAIN m \cup {k} |-> IF x = k THEN << v >> ELSE m[x]]

RECURSIVE parseQuery(_, _)
parseQuery(m, pieces) ==
    IF pieces = << >> THEN [err |-> FALSE, m |-> m]
    ELSE LET piece == Head(pieces)
             key   == QueryUnescape(Before(piece, "="))
             value == QueryUnescape(After(piece, "="))
             rest  == parseQuery(IF piece = << >> \/ key.err \/ value.err THEN m
                                 ELSE Add(m, key.s, value.s), Tail(pieces))
         IN  [err |-> rest.err \/ (piece # << >> /\ (key.err \/ value.err)), m |-> rest.m]

ParseQuery(query) == parseQuery(EmptyValues, Split(query, "&"))

RECURSIVE encodeValues(_, _)
encodeValues(k, vs) ==
    IF vs = << >> THEN << >>
    ELSE << QueryEscape(k) \o << "=" >> \o QueryEscape(Head(vs)) >> \o encodeValues(k, Tail(vs))

RECURSIVE Join(_, _)
Join(ss, sep) ==
    IF ss = << >> THEN << >>
    ELSE IF Len(ss) = 1 THEN Head(ss)
    ELSE Head(ss) \o << sep >> \o Join(Tail(ss), sep)

Encode(m) ==
    LET keys == SortStrings(DOMAIN m)
    IN  Join(Concat([i \in 1..Len(keys) |-> encodeValues(keys[i], m[keys[i]])]), "&")


(***************************************************************************)
(* Runner.categorize: the six patterns of New, (?m).*?\.(ext)(\?.*?|)$ .   *)
(* An extension token matches when it ends its line or a "?" follows it.   *)
(***************************************************************************)
EndsLine(URL, i) == i = Len(URL) \/ URL[i+1] = "LF"

\* variant: the pattern is not anchored to the end of the line
MatchStringUnanchored(exts, URL) == \E i \in 1..Len(URL) : URL[i] \in exts

MatchString(exts, URL) ==
    \E i \in 1..Len(URL) : URL[i] \in exts /\ (EndsLine(URL, i) \/ URL[i+1] = "?")

CategoriesJS == {".js"}

CategoriesDOC == {".pdf", ".xlsx", ".doc", ".docx", ".txt"}

CategoriesDATA == {".json", ".xml", ".csv"}

CategoriesSTYLE == {".css"}

CategoriesMEDIA == {".jpg", ".jpeg", ".png", ".ico", ".svg", ".gif", ".webp", ".mp3", ".mp4",
                    ".woff", ".woff2", ".ttf", ".eot", ".tif", ".tiff"}

CategoriesARCHIVE == {".zip", ".tar"}

MatchARCHIVE(URL) ==
    \/ MatchString(CategoriesARCHIVE, URL)
    \/ \E i \in 1..(Len(URL) - 1) :
          /\ URL[i] = ".tar" /\ URL[i+1] = ".gz"
          /\ (EndsLine(URL, i+1) \/ URL[i+2] = "?")

\* variant: the stylesheet pattern is tried first
categorizeStyleFirst(URL) ==
    IF MatchString(CategoriesSTYLE, URL) THEN "style"
    ELSE IF MatchString(CategoriesJS, URL) THEN "js"
    ELSE IF MatchString(CategoriesDOC, URL) THEN "doc"
    ELSE IF MatchString(CategoriesDATA, URL) THEN "data"
    ELSE IF MatchString(CategoriesMEDIA, URL) THEN "media"
    ELSE IF MatchARCHIVE(URL) THEN "archive"
    ELSE "endpoint"

categorize(URL) ==
    IF MatchString(CategoriesJS, URL) THEN "js"
    ELSE IF MatchString(CategoriesDOC, URL) THEN "doc"
    ELSE IF MatchString(CategoriesDATA, URL) THEN "data"
    ELSE IF MatchString(CategoriesSTYLE, URL) THEN "style"
    ELSE IF MatchString(CategoriesMEDIA, URL) THEN "media"
    ELSE IF MatchARCHIVE(URL) THEN "archive"
    ELSE "endpoint"

(***************************************************************************)
(* The DOMXSS pattern of Process.  The slashes that open and close the     *)
(* pattern text are literal characters of the expression:                  *)
(*   /((prop)\s*["'\]]*\s*\+?\s*=)  |  ((func)\s*["'\]]*\s*\()/            *)
(* skip(s, i, cls) is the first position at or after i not in cls.         *)
(***************************************************************************)
SinkProps == {"src", "href", "data", "location", "code", "value", "action"}

SinkFuncs == {"replace", "assign", "navigate", "getResponseHeader", "open", "openDialog",
              "showModalDialog", "eval", "evaluate", "execCommand", "execScript",
              "setTimeout", "setInterval"}

Space == {" ", "LF"}

Quote == {"\"", "'", "]"}

RECURSIVE skip(_, _, _)
skip(s, i, cls) == IF i <= Len(s) /\ s[i] \in cls THEN skip(s, i + 1, cls) ELSE i

AfterQuotes(s, i) == skip(s, skip(s, skip(s, i, Space), Quote), Space)

\* end position of a match of the first alternative starting at i, or 0
MatchAssign(s, i) ==
    IF i + 1 <= Len(s) /\ s[i] = "/" /\ s[i+1] \in SinkProps
    THEN LET j == AfterQuotes(s, i + 2)
             k == skip(s, IF j <= Len(s) /\ s[j] = "+" THEN j + 1 ELSE j, Space)
         IN  IF k <= Len(s) /\ s[k] = "=" THEN k ELSE 0
    ELSE 0

\* end position of a match of the second alternative starting at i, or 0
MatchCall(s, i) ==
    IF i <= Len(s) /\ s[i] \in SinkFuncs
    THEN LET j == AfterQuotes(s, i + 1)
         IN  IF j + 1 <= Len(s) /\ s[j] = "(" /\ s[j+1] = "/" THEN j + 1 ELSE 0
    ELSE 0

\* regexp.FindStringSubmatch: nil (<< >>) or the leftmost match and its five groups
domXSS(body) ==
    LET hits == { i \in 1..Len(body) : MatchAssign(body, i) > 0 \/ MatchCall(body, i) > 0 }
    IN  IF hits = {} THEN << >>
        ELSE LET i == CHOOSE x \in hits : \A y \in hits : x <= y
             IN  IF MatchAssign(body, i) > 0
                 THEN << SubSeq(body, i, MatchAssign(body, i)),
                         SubSeq(body, i + 1, MatchAssign(body, i)),
                         << body[i+1] >>, << >>, << >>, << >> >>
                 ELSE << SubSeq(body, i, MatchCall(body, i)), << >>, << >>,
                         SubSeq(body, i, MatchCall(body, i) - 1),
                         << body[i] >>,
                         IF body[i] = "openDialog" THEN << "Dialog" >> ELSE << >> >>

(***************************************************************************)
(* The remote endpoint (the environment of httpRequest).  It is static:    *)
(* its response is a function of the request URL.  The body is a fixed     *)
(* page followed by the values of the parameters the endpoint echoes.      *)
(***************************************************************************)
Respond(ep, reqURL) ==
    LET q    == ParseQuery(Parse(reqURL).url.RawQuery).m
        keys == SortStrings(DOMAIN q \cap ep.echo)
        body == ep.page \o Concat([i \in 1..Len(keys) |-> Concat(q[keys[i]])])
    IN  [StatusCode    |-> ep.status,
         ContentType   |-> << "text/html", ";", " ", "charset=utf-8" >>,
         ContentLength |-> Len(body),
         body          |-> body]

(***************************************************************************)
(* Runner.Process.  One call is a record:                                  *)
(*   pc        "start", "reflect" (head of the probe loop), "request"      *)
(*             (stage 4) or "returned"                                     *)
(*   parsedURL, query, results, err   the locals of Process                *)
(*   todo      the keys the range over query has not yet yielded           *)
(*   requests  the calls of httpRequest so far: URL, probed parameter      *)
(*             (Full for the page fetch) and how the exchange ended        *)
(*   bodies    one entry per response received: read to the end? closed?   *)
(***************************************************************************)
EmptyResults ==
    [URL |-> << >>, Category |-> "", StatusCode |-> 0, ContentType |-> << >>,
     ContentLength |-> 0, List |-> << >>, Risky |-> << >>, Reflected |-> << >>, DOM |-> << >>]

NewCall ==
    [pc |-> "start", parsedURL |-> NilURL, query |-> EmptyValues, todo |-> {},
     results |-> EmptyResults, err |-> "", requests |-> << >>, bodies |-> << >>]

\* variant: the results record outlives the call
FreshStale(c) == [NewCall EXCEPT !.results = c.results]

\* the locals of a new call: the named results are zero values
Fresh(c) == NewCall

Full == << "full" >>

Outcomes == {"ok", "neterr", "readerr"}

\* variant: classification ignores All
RunCategorizeNoAll(o) == o.C

\* the stage gates of Process
RunCategorize(o) == o.C \/ o.All

\* variant: listing ignores PV
RunListNoPV(o) == o.P \/ o.All

RunList(o) == o.P \/ o.PV \/ o.All

\* variant: probing ignores P
RunReflectNoP(o) == o.PR \/ o.All

RunReflect(o) == o.P \/ o.PR \/ o.All

RunRequest(o) == o.Request \/ o.All

\* variant: an error return hands back a zero record
ReturnDiscarding(c, results, err) ==
    [c EXCEPT !.pc = "returned", !.results = IF err = "" THEN results ELSE EmptyResults,
              !.err = err, !.todo = {},
              !.bodies = [i \in 1..Len(c.bodies) |-> [c.bodies[i] EXCEPT !.closed = TRUE]]]

\* a return statement: the deferred res.Body.Close() calls run
Return(c, results, err) ==
    [c EXCEPT !.pc = "returned", !.results = results, !.err = err, !.todo = {},
              !.bodies = [i \in 1..Len(c.bodies) |-> [c.bodies[i] EXCEPT !.closed = TRUE]]]

\* variant: the names are compared as they are
RiskyOfCaseSensitive(Params, parameter) ==
    LET hits == { i \in 1..Len(Params) : Params[i].Param = parameter }
    IN  IF hits = {} THEN << >>
        ELSE << Params[CHOOSE i \in hits : \A j \in hits : i <= j] >>

\* the inner loop of stage 2.2: the first catalog entry that equals the parameter, ignoring case
RiskyOf(Params, parameter) ==
    LET hits == { i \in 1..Len(Params) : ToLower(Params[i].Param) = ToLower(parameter) }
    IN  IF hits = {} THEN << >>
        ELSE << Params[CHOOSE i \in hits : \A j \in hits : i <= j] >>

\* stage 2: order is the order in which the range over query yields the keys
ScanParams(Params, results, order) ==
    [results EXCEPT !.List  = @ \o order,
                    !.Risky = @ \o Concat([i \in 1..Len(order) |-> RiskyOf(Params, order[i])])]

\* Process up to the head of the probe loop
StartStep(o, Params, URL, c, order) ==
    LET p1 == Parse(URL)
        r1 == [c.results EXCEPT !.URL = String(p1.url)]
        r2 == IF RunCategorize(o) THEN [r1 EXCEPT !.Category = categorize(URL)] ELSE r1
        qu == QueryUnescape(r2.URL)
        p2 == Parse(qu.s)
        pq == ParseQuery(p2.url.RawQuery)
        r3 == IF DOMAIN pq.m # {} /\ RunList(o) THEN ScanParams(Params, r2, order) ELSE r2
        c3 == [c EXCEPT !.parsedURL = p2.url, !.query = pq.m, !.results = r3]
    IN  IF p1.err THEN Return(c, c.results, "parse")
        ELSE IF qu.err THEN Return(c, r2, "unescape")
        ELSE IF p2.err THEN Return(c, r2, "reparse")
        ELSE IF pq.err THEN Return([c EXCEPT !.parsedURL = p2.url], r2, "query")
        ELSE IF DOMAIN pq.m # {} /\ RunReflect(o)
             THEN [c3 EXCEPT !.pc = "reflect", !.todo = DOMAIN pq.m]
             ELSE [c3 EXCEPT !.pc = "request"]

\* variant: the body is never read
ExchangeUnread(c, url, parameter, outcome) ==
    [c EXCEPT !.requests = Append(@, [url |-> url, param |-> parameter, outcome |-> outcome]),
              !.bodies   = IF outcome = "neterr" THEN @
                           ELSE Append(@, [drained |-> FALSE, closed |-> FALSE])]

\* variant: the page body is read only when it is going to be scanned
ExchangeReadIfScanned(c, url, parameter, outcome) ==
    [c EXCEPT !.requests = Append(@, [url |-> url, param |-> parameter, outcome |-> outcome]),
              !.bodies   = IF outcome = "neterr" THEN @
                           ELSE Append(@, [drained |-> /\ outcome = "ok"
                                                       /\ (parameter # Full
                                                           \/ c.results.Category \in {"js", "endpoint"}),
                                           closed  |-> FALSE])]

\* httpRequest and ioutil.ReadAll: the request is recorded; a response brings a body
Exchange(c, url, parameter, outcome) ==
    [c EXCEPT !.requests = Append(@, [url |-> url, param |-> parameter, outcome |-> outcome]),
              !.bodies   = IF outcome = "neterr" THEN @
                           ELSE Append(@, [drained |-> outcome = "ok", closed |-> FALSE])]

\* variant: any non-empty body counts as a reflection
ReflectsAny(body) == body # << >>

\* regexp.MustCompile(payload).FindStringSubmatch(body) != nil
Reflects(body) == Contains(body, Payload)

\* variant: the error of httpRequest is dropped
ExchangeErrorIgnoreNet(outcome) == IF outcome = "readerr" THEN "read" ELSE ""

\* the error of httpRequest or of ioutil.ReadAll, "" for nil
ExchangeError(outcome) ==
    IF outcome = "neterr" THEN "net" ELSE IF outcome = "readerr" THEN "read" ELSE ""

\* what query.Set(parameter, tmp) stores back
Restored(value) == value[1]

\* one iteration of the probe loop
ProbeStep(ep, c, parameter, outcome) ==
    LET tmp    == Restored(c.query[parameter])
        probe  == Set(c.query, parameter, << Payload >>)
        pURL   == [c.parsedURL EXCEPT !.RawQuery = Encode(probe)]
        c1     == Exchange([c EXCEPT !.parsedURL = pURL, !.query = probe],
                           String(pURL), parameter, outcome)
        body   == Respond(ep, String(pURL)).body
        found  == IF Reflects(body)
                  THEN Append(c.results.Reflected, [Param |-> parameter, URL |-> String(pURL)])
                  ELSE c.results.Reflected
        todo   == c.todo \ {parameter}
    IN  IF ExchangeError(outcome) # "" THEN Return(c1, c.results, ExchangeError(outcome))
        ELSE [c1 EXCEPT !.results.Reflected = found,
                        !.query = Set(probe, parameter, tmp),
                        !.todo  = todo,
                        !.pc    = IF todo = {} THEN "request" ELSE "reflect"]

\* variant: the scan is skipped for the other five categories only
ScansDOMUnlessOther(category) == category \notin {"doc", "data", "style", "media", "archive"}

\* the category gate of the DOMXSS scan
ScansDOM(category) == category = "js" \/ category = "endpoint"

\* stage 4 and the final return
RequestStep(o, ep, c, outcome) ==
    LET url == String(c.parsedURL)
        c1  == Exchange(c, url, Full, outcome)
        res == Respond(ep, url)
        r1  == IF ScansDOM(c.results.Category)
               THEN [c.results EXCEPT !.DOM = @ \o domXSS(res.body)]
               ELSE c.results
        r2  == [r1 EXCEPT !.StatusCode    = res.StatusCode,
                          !.ContentType   = Head(Split(res.ContentType, ";")),
                          !.ContentLength = res.ContentLength]
    IN  IF ~RunRequest(o) THEN Return(c, c.results, "")
        ELSE IF ExchangeError(outcome) # "" THEN Return(c1, c.results, ExchangeError(outcome))
        ELSE Return(c1, r2, "")

(***************************************************************************)
(* The inputs: options, risk catalog, URLs and endpoints.                  *)
(***************************************************************************)
OptionsSet == [C : BOOLEAN, P : BOOLEAN, PV : BOOLEAN, PR : BOOLEAN, Request : BOOLEAN, All : BOOLEAN]

AllFlags == [C |-> TRUE, P |-> TRUE, PV |-> TRUE, PR |-> TRUE, Request |-> TRUE, All |-> TRUE]

Catalog ==
    << [Param |-> << "A" >>, Risks |-> << "XSS" >>],
       [Param |-> << "a" >>, Risks |-> << "SQLi" >>] >>

Names == {"a", "b"}

Vals == {"1"}

PairSeqs == UNION { [1..n -> Names \X Vals] : n \in 0..MaxPairs }

QueryOf(ps) == Join([i \in 1..Len(ps) |-> << ps[i][1], "=", ps[i][2] >>], "&")

Bases == { << "http://h", "/p" >>, << "http://h", "/p", ".png" >> }

PlainURLs == { b \o (IF ps = << >> THEN << >> ELSE << "?" >> \o QueryOf(ps)) : b \in Bases, ps \in PairSeqs }

SpecialURLs ==
    { << "http://h", "/p", "LF" >>,
      << "http://h", "/p", "?", "&" >>,
      << "http://h", "/p", "?", "a", "=", "%" >>,
      << "http://h", "/p", "?", "a", "=", "%25" >>,
      << "http://h", "/p", "?", "a", "=", "%0A" >>,
      << "http://h", "/p", "?", "a", "=", "1", "%26", "b", "=", "2" >>,
      << "http://h", "/p", "?", "a", "=", "1", "&", "a", "=", "2", "&", "b", "=", "1" >>,
      << "http://h", "/p", "?", "b", "=", "2", "&", "a", "=", "2" >>,
      << "http://h", "/p", "?", "a", "=", Payload, "&", "b", "=", "1" >>,
      << "http://h", "/p", ".js", "?", "A", "=", "1", "&", "a", "=", "2" >> }

URLs == PlainURLs \cup SpecialURLs

Endpoints ==
    { [echo |-> {}, status |-> 404,
       page |-> << "document.", "location", " ", "=", " ", "foo" >>],
      [echo |-> { << "a" >> }, status |-> 200,
       page |-> << "x", "=", "'", "/", "location", "=", "'" >>],
      [echo |-> { << "a" >>, << "b" >> }, status |-> 200,
       page |-> << "eval", "(", "/", "x", "/", ")" >>] }

\* the query map Process builds from URL (lines 102-129), when it builds one
ParsedQuery(URL) ==
    ParseQuery(Parse(QueryUnescape(String(Parse(URL).url)).s).url.RawQuery).m

(***************************************************************************)
(* The state.  runner, URL and endpoint are fixed by Init.  call is the    *)
(* Process call in progress, run its number and prev the previous call of  *)
(* the same URL.  ref follows call step by step: it is the call Process    *)
(* makes with every flag set, under the same map order and the same        *)
(* network outcomes; it is kept while runner.Options.All is set.           *)
(***************************************************************************)
VARIABLES runner, URL, endpoint, call, ref, run, prev, peer

vars == << runner, URL, endpoint, call, ref, run, prev, peer >>

\* peer is a second Process call on the same Runner, for the URL peer.URL
NoPeer == [URL |-> << >>, call |-> NewCall]

\* variant: the results record is a field of the shared Runner
SharedResults(mine, other) == [other EXCEPT !.results = mine.results]

\* what a step of one call leaves of the other: query, parsedURL and results are locals of Process
Untouched(mine, other) == other

Init ==
    /\ runner \in [Options : OptionsSet, Params : {Catalog}]
    /\ URL \in URLs
    /\ endpoint \in Endpoints
    /\ call = NewCall
    /\ ref = NewCall
    /\ run = 1
    /\ prev = NewCall
    /\ peer = NoPeer

Follow(step) == IF runner.Options.All THEN step ELSE ref

Start ==
    /\ call.pc = "start"
    /\ \E order \in Perms(DOMAIN ParsedQuery(URL)) :
          /\ call' = StartStep(runner.Options, runner.Params, URL, call, order)
          /\ ref' = Follow(StartStep(AllFlags, runner.Params, URL, ref, order))
    /\ peer' = [peer EXCEPT !.call = Untouched(call', @)]
    /\ UNCHANGED << runner, URL, endpoint, run, prev >>

Probe ==
    /\ call.pc = "reflect"
    /\ \E parameter \in call.todo, outcome \in Outcomes :
          /\ call' = ProbeStep(endpoint, call, parameter, outcome)
          /\ ref' = Follow(ProbeStep(endpoint, ref, parameter, outcome))
    /\ peer' = [peer EXCEPT !.call = Untouched(call', @)]
    /\ UNCHANGED << runner, URL, endpoint, run, prev >>

Request ==
    /\ call.pc = "request"
    /\ \E outcome \in (IF RunRequest(runner.Options) THEN Outcomes ELSE {"ok"}) :
          /\ call' = RequestStep(runner.Options, endpoint, call, outcome)
          /\ ref' = Follow(RequestStep(AllFlags, endpoint, ref, outcome))
    /\ peer' = [peer EXCEPT !.call = Untouched(call', @)]
    /\ UNCHANGED << runner, URL, endpoint, run, prev >>

\* the caller processes the same URL once more
Rerun ==
    /\ call.pc = "returned"
    /\ run < MaxRuns
    /\ prev' = call
    /\ call' = Fresh(call)
    /\ ref' = Fresh(ref)
    /\ run' = run + 1
    /\ peer' = [peer EXCEPT !.call = Untouched(call', @)]
    /\ UNCHANGED << runner, URL, endpoint >>

\* one call of Process per behaviour
Next == Start \/ Probe \/ Request

Spec == Init /\ [][Next]_vars

\* the caller repeats the call: classification on, parameter scan, page fetch or everything
InitRerun ==
    /\ Init
    /\ runner.Options.C /\ ~runner.Options.PV /\ ~runner.Options.PR

NextRerun == Start \/ Probe \/ Request \/ Rerun

SpecRerun == InitRerun /\ [][NextRerun]_vars

\* the steps of the second call
PeerStart ==
    /\ peer.call.pc = "start"
    /\ \E order \in Perms(DOMAIN ParsedQuery(peer.URL)) :
          peer' = [peer EXCEPT !.call = StartStep(runner.Options, runner.Params, peer.URL, @, order)]
    /\ call' = Untouched(peer'.call, call)
    /\ UNCHANGED << runner, URL, endpoint, ref, run, prev >>

PeerProbe ==
    /\ peer.call.pc = "reflect"
    /\ \E parameter \in peer.call.todo, outcome \in Outcomes :
          peer' = [peer EXCEPT !.call = ProbeStep(endpoint, @, parameter, outcome)]
    /\ call' = Untouched(peer'.call, call)
    /\ UNCHANGED << runner, URL, endpoint, ref, run, prev >>

PeerRequest ==
    /\ peer.call.pc = "request"
    /\ \E outcome \in (IF RunRequest(runner.Options) THEN Outcomes ELSE {"ok"}) :
          peer' = [peer EXCEPT !.call = RequestStep(runner.Options, endpoint, @, outcome)]
    /\ call' = Untouched(peer'.call, call)
    /\ UNCHANGED << runner, URL, endpoint, ref, run, prev >>

\* two calls for different URLs on one Runner, their steps interleaved in any order
ConcurrentURLs ==
    { << "http://h", "/p", "?", "a", "=", "1" >>,
      << "http://h", "/p", "?", "a", "=", "1", "&", "b", "=", "1" >>,
      << "http://h", "/p", ".png", "?", "b", "=", "1", "&", "a", "=", "2" >> }

InitConcurrent ==
    /\ runner \in [Options : OptionsSet, Params : {Catalog}]
    /\ runner.Options.C /\ ~runner.Options.PV /\ ~runner.Options.PR
    /\ URL \in ConcurrentURLs
    /\ endpoint \in Endpoints
    /\ call = NewCall
    /\ ref = NewCall
    /\ run = 1
    /\ prev = NewCall
    /\ peer \in [URL : ConcurrentURLs \ {URL}, call : {NewCall}]

NextConcurrent == Start \/ Probe \/ Request \/ PeerStart \/ PeerProbe \/ PeerRequest

SpecConcurrent == InitConcurrent /\ [][NextConcurrent]_vars

TypeOK ==
    /\ call.pc \in {"start", "reflect", "request", "returned"}
    /\ run \in 1..MaxRuns

(***************************************************************************)
(* Notions the properties share.                                           *)
(***************************************************************************)
\* the query of a request, as its receiver parses it
ReqQuery(r) == ParseQuery(Parse(r.url).url.RawQuery).m

Keys == DOMAIN ParsedQuery(URL)

Probes(c) == { i \in 1..Len(c.requests) : c.requests[i].param # Full }

Fetches(c) == { i \in 1..Len(c.requests) : c.requests[i].param = Full }

ReturnedOK(c) == c.pc = "returned" /\ c.err = ""

ReturnedErr(c) == c.pc = "returned" /\ c.err # ""

Range(f) == { f[i] : i \in DOMAIN f }

(***************************************************************************)
(* C1: in every probe request the probed parameter carries the marker and  *)
(* every other parameter of the query carries its original values.         *)
(***************************************************************************)
C1_ProbeIsolatesParameter ==
    \A i \in Probes(call) :
        LET r == call.requests[i]
            q == ReqQuery(r)
        IN  /\ DOMAIN q = Keys
            /\ q[r.param] = << << Payload >> >>
            /\ \A k \in Keys \ {r.param} : q[k] = ParsedQuery(URL)[k]

(***************************************************************************)
(* C2: the GET of the full-page fetch goes to the unmodified URL: every    *)
(* parameter of its query has its original values.                         *)
(***************************************************************************)
C2_FetchUnmodifiedURL ==
    \A i \in Fetches(call) : ReqQuery(call.requests[i]) = ParsedQuery(URL)

RECURSIVE FindingsOf(_, _)
FindingsOf(ep, requests) ==
    IF requests = << >> THEN << >>
    ELSE (IF Head(requests).param # Full /\ Head(requests).outcome = "ok"
             /\ Contains(Respond(ep, Head(requests).url).body, Payload)
          THEN << [Param |-> Head(requests).param, URL |-> Head(requests).url] >>
          ELSE << >>) \o FindingsOf(ep, Tail(requests))

C4_ClosedBeforeNextRequest ==
    [][Len(call'.requests) > Len(call.requests) =>
          \A i \in 1..Len(call.bodies) : call.bodies[i].drained /\ call.bodies[i].closed]_vars

(***************************************************************************)
(* C4, amended: when a request is sent, the bodies of all earlier          *)
(* responses of the call are drained; they are closed when Process         *)
(* returns, not before.                                                    *)
(***************************************************************************)
C4_DrainedBeforeNextClosedAtReturn ==
    /\ [][Len(call'.requests) > Len(call.requests) =>
             \A i \in 1..Len(call.bodies) : call.bodies[i].drained /\ ~call.bodies[i].closed]_vars
    /\ [](\A i \in 1..Len(call.bodies) : call.bodies[i].closed <=> call.pc = "returned")

C4_Witness ==
    /\ call.pc = "request" /\ RunRequest(runner.Options)
    /\ Len(call.bodies) >= 2
    /\ \A i \in 1..Len(call.bodies) : call.bodies[i].drained /\ ~call.bodies[i].closed

(***************************************************************************)
(* C5, as claimed: two calls with the same configuration, catalog and URL  *)
(* against the same static endpoint return identical results.              *)
(***************************************************************************)
BothReturnedOK == run >= 2 /\ ReturnedOK(call) /\ ReturnedOK(prev)

C5_Idempotent == BothReturnedOK => call.results = prev.results

(***************************************************************************)
(* C5, amended: the two calls return identical results and issue the same  *)
(* requests when the URL has at most one distinct parameter name; with     *)
(* more names they list the same names and the same risky entries, in an   *)
(* order that follows the map iteration and may differ between the calls.  *)
(***************************************************************************)
C5_IdempotentUpToMapOrder ==
    BothReturnedOK =>
        /\ Cardinality(Keys) <= 1 =>
              call.results = prev.results /\ call.requests = prev.requests
        /\ Range(call.results.List) = Range(prev.results.List)
        /\ Len(call.results.List) = Len(prev.results.List)
        /\ Range(call.results.Risky) = Range(prev.results.Risky)
        /\ Len(call.results.Risky) = Len(prev.results.Risky)

C5_Witness ==
    /\ BothReturnedOK /\ Cardinality(Keys) = 1
    /\ Len(call.requests) = 2 /\ call.results.Reflected # << >> /\ call.results.Risky # << >>

(***************************************************************************)
(* C6: after a call without error the reflected list holds a finding for   *)
(* parameter p exactly when the body answering p's own probe contains the  *)
(* marker; the finding's URL is the URL of that probe, with p set to the   *)
(* marker; an endpoint that never returns the marker yields no finding.    *)
(***************************************************************************)
C6_ReflectedIffMarkerInProbeBody ==
    ReturnedOK(call) =>
        LET found == call.results.Reflected
        IN  /\ \A i \in Probes(call) :
                  (\E j \in 1..Len(found) : found[j].Param = call.requests[i].param)
                  <=> Contains(Respond(endpoint, call.requests[i].url).body, Payload)
            /\ \A j \in 1..Len(found) :
                  \E i \in Probes(call) :
                      /\ call.requests[i].param = found[j].Param
                      /\ call.requests[i].url = found[j].URL
                      /\ ReqQuery(call.requests[i])[found[j].Param] = << << Payload >> >>
            /\ \A j, k \in 1..Len(found) : found[j].Param = found[k].Param => j = k
            /\ (\A i \in 1..Len(call.requests) :
                   ~Contains(Respond(endpoint, call.requests[i].url).body, Payload))
               => found = << >>

C6_Witness ==
    /\ ReturnedOK(call) /\ Cardinality(Probes(call)) = 2
    /\ Len(call.results.Reflected) = 1

(***************************************************************************)
(* C7: a call without error issues one request per distinct parameter      *)
(* name when the query is non-empty and P, PR or All is set, plus one      *)
(* when Request or All is set, and no other; each parameter is probed      *)
(* exactly once.                                                           *)
(***************************************************************************)
C7_RequestCount ==
    ReturnedOK(call) =>
        LET o       == runner.Options
            probing == Keys # {} /\ (o.P \/ o.PR \/ o.All)
        IN  /\ Len(call.requests) = (IF probing THEN Cardinality(Keys) ELSE 0)
                                    + (IF o.Request \/ o.All THEN 1 ELSE 0)
            /\ Cardinality(Fetches(call)) = (IF o.Request \/ o.All THEN 1 ELSE 0)
            /\ \A k \in (IF probing THEN Keys ELSE {}) :
                  Cardinality({ i \in Probes(call) : call.requests[i].param = k }) = 1

C7_Witness ==
    /\ ReturnedOK(call) /\ Len(call.requests) = 3
    /\ ~runner.Options.All

(***************************************************************************)
(* C8: a request that fails with a network error is the last request of    *)
(* the call, and the call returns that error.                              *)
(***************************************************************************)
C8_FailFast ==
    \A i \in 1..Len(call.requests) :
        call.requests[i].outcome = "neterr" =>
            i = Len(call.requests) /\ call.pc = "returned" /\ call.err = "net"

C8_Witness ==
    /\ call.pc = "returned" /\ call.err = "net" /\ RunRequest(runner.Options)
    /\ Len(call.requests) = 1 /\ call.requests[1].param # Full
    /\ Cardinality(Keys) = 2

(***************************************************************************)
(* C9: after each probe iteration the query map equals the map parsed      *)
(* from the URL.                                                           *)
(***************************************************************************)
C9_QueryRestored ==
    (call.pc \in {"reflect", "request"} \/ ReturnedOK(call)) => call.query = ParsedQuery(URL)

(***************************************************************************)
(* C10: with All set the call proceeds, step by step, as the call with     *)
(* every flag set (same requests, same results), and a call without error  *)
(* has classified, listed and probed every parameter and fetched the page. *)
(***************************************************************************)
C10_AllForcesEveryStage ==
    runner.Options.All =>
        /\ call = ref
        /\ ReturnedOK(call) =>
              /\ call.results.Category = categorize(URL)
              /\ Range(call.results.List) = Keys
              /\ { call.requests[i].param : i \in Probes(call) } = Keys
              /\ Cardinality(Fetches(call)) = 1
              /\ call.results.StatusCode # 0

C10_Witness ==
    /\ runner.Options = [C |-> FALSE, P |-> FALSE, PV |-> FALSE, PR |-> FALSE,
                         Request |-> FALSE, All |-> TRUE]
    /\ ReturnedOK(call) /\ Len(call.requests) = 3
    /\ call.results.DOM # << >> /\ call.results.Risky # << >>

(***************************************************************************)
(* Classification alone: Process with only the C flag, on URLs whose path  *)
(* and whose query may each end in an extension.                           *)
(***************************************************************************)
ClassifyOnly ==
    [C |-> TRUE, P |-> FALSE, PV |-> FALSE, PR |-> FALSE, Request |-> FALSE, All |-> FALSE]

ExtSample == {".js", ".pdf", ".json", ".css", ".png", ".zip", ".tar"}

PathEnds == { << >>, << ".tar", ".gz" >>, << ".js", ".css" >>, << ".gz" >> } \cup { << e >> : e \in ExtSample }

QueryEnds ==
    { << >>, << "?" >>, << "?", "a", "=", "1" >> } \cup { << "?", "a", "=", e >> : e \in ExtSample }

CategoryURLs == { << "http://h", "/p" >> \o p \o q : p \in PathEnds, q \in QueryEnds }

InitCategorize ==
    /\ runner = [Options |-> ClassifyOnly, Params |-> Catalog]
    /\ URL \in CategoryURLs
    /\ endpoint \in Endpoints
    /\ call = NewCall
    /\ ref = NewCall
    /\ run = 1
    /\ prev = NewCall
    /\ peer = NoPeer

NextCategorize == Start \/ Request

SpecCategorize == InitCategorize /\ [][NextCategorize]_vars

\* the patterns in the order categorize tries them, and those that match URL
CategoryOrder == << "js", "doc", "data", "style", "media", "archive" >>

PatternMatches(i, u) ==
    CASE i = 1 -> MatchString(CategoriesJS, u)
      [] i = 2 -> MatchString(CategoriesDOC, u)
      [] i = 3 -> MatchString(CategoriesDATA, u)
      [] i = 4 -> MatchString(CategoriesSTYLE, u)
      [] i = 5 -> MatchString(CategoriesMEDIA, u)
      [] i = 6 -> MatchARCHIVE(u)

Matching(u) == { i \in 1..6 : PatternMatches(i, u) }

Classified == call.pc # "start" /\ call.err # "parse" /\ RunCategorize(runner.Options)

(***************************************************************************)
(* C11: categorize is total and first-match-wins: the category is that of  *)
(* the earliest pattern in the order js, doc, data, style, media, archive  *)
(* that matches the URL, and endpoint when none matches; it is never       *)
(* empty.                                                                  *)
(***************************************************************************)
C11_FirstMatchWins ==
    Classified =>
        /\ call.results.Category \in Range(CategoryOrder) \cup {"endpoint"}
        /\ call.results.Category =
              (IF Matching(URL) = {} THEN "endpoint"
               ELSE CategoryOrder[CHOOSE i \in Matching(URL) : \A j \in Matching(URL) : i <= j])

C11_Witness ==
    /\ Classified /\ ReturnedOK(call)
    /\ Matching(URL) = {2, 4} /\ call.results.Category = "doc"

(***************************************************************************)
(* C12, as claimed: at most one of the six patterns matches a URL, also    *)
(* when its query ends in an extension.                                    *)
(***************************************************************************)
C12_PatternsExclusive == Classified => Cardinality(Matching(URL)) <= 1

(***************************************************************************)
(* C12, amended: at most one of the six patterns matches a URL that has    *)
(* no "?" and no line break; a URL whose path ends in the extension of     *)
(* one category and whose query ends in the extension of another matches   *)
(* both patterns, and categorize returns the one earlier in the order.     *)
(***************************************************************************)
C12_ExclusiveWithoutQuery ==
    Classified =>
        /\ (~Contains(URL, "?") /\ ~Contains(URL, "LF")) => Cardinality(Matching(URL)) <= 1
        /\ Cardinality(Matching(URL)) >= 2 =>
              /\ Contains(URL, "?") \/ Contains(URL, "LF")
              /\ call.results.Category \in { CategoryOrder[i] : i \in Matching(URL) }
              /\ \A i \in Matching(URL) :
                    \E j \in Matching(URL) : j <= i /\ call.results.Category = CategoryOrder[j]

C12_Witness ==
    /\ Classified /\ ~Contains(URL, "?")
    /\ Contains(URL, ".js") /\ Contains(URL, ".css")
    /\ Matching(URL) = {4} /\ call.results.Category = "style"

\* the response to the page fetch of call c
FetchResponse(c) == Respond(endpoint, c.requests[CHOOSE i \in Fetches(c) : TRUE].url)

\* an assignment into a sink property: the property, optional quotes or brackets, an optional +, then =
AssignsSink(body) ==
    \E i \in 1..Len(body) :
        /\ body[i] \in SinkProps
        /\ LET j == AfterQuotes(body, i + 1)
               k == skip(body, IF j <= Len(body) /\ body[j] = "+" THEN j + 1 ELSE j, Space)
           IN  k <= Len(body) /\ body[k] = "="

(***************************************************************************)
(* C13: after a page fetch whose body assigns into a sink property (such   *)
(* as document.location = foo) the DOM sequence is non-empty when the      *)
(* category is endpoint or js and empty for every other category.          *)
(***************************************************************************)
C13_SinkAssignmentFlagged ==
    (ReturnedOK(call) /\ Fetches(call) # {} /\ AssignsSink(FetchResponse(call).body)) =>
        IF call.results.Category \in {"js", "endpoint"}
        THEN call.results.DOM # << >>
        ELSE call.results.DOM = << >>

(***************************************************************************)
(* C17: when Process returns without error, every response it received,    *)
(* probe or page, scanned or not, has been read to the end.                *)
(***************************************************************************)
C17_ConsumedBeforeReturn ==
    ReturnedOK(call) =>
        /\ Len(call.bodies) = Len(call.requests)
        /\ \A i \in 1..Len(call.bodies) : call.bodies[i].drained

C17_Witness ==
    /\ ReturnedOK(call) /\ Len(call.bodies) = 3
    /\ call.results.Category = "media" /\ call.results.DOM = << >>
    /\ domXSS(FetchResponse(call).body) # << >>
    /\ \A i \in 1..Len(call.bodies) : call.bodies[i].drained

(***************************************************************************)
(* C18: with Request set and neither C nor All, the category stays empty,  *)
(* the DOM scan is not run and the DOM list is empty whatever the body,    *)
(* while status code, content type and content length are recorded.        *)
(***************************************************************************)
C18_NoScanWithoutClassification ==
    (ReturnedOK(call) /\ runner.Options.Request /\ ~runner.Options.C /\ ~runner.Options.All) =>
        /\ call.results.Category = ""
        /\ call.results.DOM = << >>
        /\ Cardinality(Fetches(call)) = 1
        /\ call.results.StatusCode = FetchResponse(call).StatusCode
        /\ call.results.ContentType = << "text/html" >>
        /\ call.results.ContentLength = FetchResponse(call).ContentLength

C18_Witness ==
    /\ ReturnedOK(call) /\ runner.Options.Request /\ ~runner.Options.C /\ ~runner.Options.All
    /\ categorize(URL) = "endpoint"
    /\ domXSS(FetchResponse(call).body) # << >>
    /\ call.results.DOM = << >> /\ call.results.StatusCode = 200

\* the first catalog entry, in catalog order, whose name equals p ignoring case
FirstRisk(p) ==
    LET hits == { j \in 1..Len(Catalog) : ToLower(Catalog[j].Param) = ToLower(p) }
    IN  IF hits = {} THEN << >>
        ELSE << Catalog[CHOOSE j \in hits : \A k \in hits : j <= k] >>

Listed ==
    /\ call.pc \in {"reflect", "request"} \/ (call.pc = "returned" /\ call.err \in {"", "net", "read"})
    /\ Keys # {}
    /\ runner.Options.P \/ runner.Options.PV \/ runner.Options.All

(***************************************************************************)
(* C14: when listing runs, each listed parameter contributes to the risky  *)
(* list the first catalog entry whose name equals it ignoring case, and    *)
(* nothing when there is none; the catalog is left unchanged.              *)
(***************************************************************************)
C14_RiskyFirstMatchIgnoringCase ==
    /\ runner.Params = Catalog
    /\ Listed =>
          /\ call.results.Risky =
                Concat([i \in 1..Len(call.results.List) |-> FirstRisk(call.results.List[i])])
          /\ Len(call.results.Risky) <= Len(call.results.List)

C14_Witness ==
    /\ Listed /\ ReturnedOK(call)
    /\ Range(call.results.List) = { << "a" >>, << "b" >> }
    /\ call.results.Risky = << Catalog[1] >>
    /\ Catalog[1].Param = << "A" >> /\ Catalog[2].Param = << "a" >>

(***************************************************************************)
(* C15, as claimed: in a result returned without error the parameter list  *)
(* is non-empty exactly when the URL has a non-empty query string and one  *)
(* of the parameter flags P, PV, PR or All is set.                         *)
(***************************************************************************)
C15_ListIffQueryAndScan ==
    ReturnedOK(call) =>
        (call.results.List # << >>
         <=> /\ Parse(URL).url.RawQuery # << >>
             /\ runner.Options.P \/ runner.Options.PV \/ runner.Options.PR \/ runner.Options.All)

(***************************************************************************)
(* C15, amended: in a result returned without error the parameter list is  *)
(* non-empty exactly when the parsed query has at least one parameter and  *)
(* P, PV or All is set; PR alone probes the parameters and lists none.     *)
(***************************************************************************)
C15_ListIffParametersAndListing ==
    ReturnedOK(call) =>
        /\ call.results.List # << >>
           <=> (Keys # {} /\ (runner.Options.P \/ runner.Options.PV \/ runner.Options.All))
        /\ call.results.List # << >> => Range(call.results.List) = Keys

C15_Witness ==
    /\ ReturnedOK(call) /\ Keys # {}
    /\ runner.Options.PV /\ ~runner.Options.P /\ ~runner.Options.PR /\ ~runner.Options.All
    /\ Len(call.results.List) = 2 /\ call.requests = << >>

\* the parameter names of the query string of the input URL, parsed as it stands
OwnNames == DOMAIN ParseQuery(Parse(URL).url.RawQuery).m

(***************************************************************************)
(* C19: the parameter names Process lists and probes are the parameter     *)
(* names of the query string of the input URL.                             *)
(***************************************************************************)
C19_NamesOfInputQuery ==
    ReturnedOK(call) =>
        /\ DOMAIN call.query = OwnNames
        /\ Range(call.results.List) \subseteq OwnNames
        /\ { call.requests[i].param : i \in Probes(call) } \subseteq OwnNames

(***************************************************************************)
(* A call running alone.  Alone(u, c) is the state Process(u) reaches on   *)
(* its own when the map yields the keys in the order, and the network      *)
(* answers the requests with the outcomes, that call c recorded.           *)
(***************************************************************************)
Diverged == [NewCall EXCEPT !.pc = "diverged"]

RECURSIVE ReplayFrom(_, _, _, _)
ReplayFrom(o, ep, s, reqs) ==
    IF reqs = << >> THEN s
    ELSE LET r == Head(reqs)
         IN  IF r.param = Full
             THEN IF s.pc = "request" /\ RunRequest(o)
                  THEN ReplayFrom(o, ep, RequestStep(o, ep, s, r.outcome), Tail(reqs))
                  ELSE Diverged
             ELSE IF s.pc = "reflect" /\ r.param \in s.todo
                  THEN ReplayFrom(o, ep, ProbeStep(ep, s, r.param, r.outcome), Tail(reqs))
                  ELSE Diverged

Alone(u, c) ==
    IF c.pc = "start" THEN NewCall
    ELSE LET o == runner.Options
             s == ReplayFrom(o, endpoint,
                             StartStep(o, runner.Params, u, NewCall, c.results.List), c.requests)
         IN  IF c.pc = "returned" /\ s.pc = "request" /\ ~RunRequest(o)
             THEN RequestStep(o, endpoint, s, "ok")
             ELSE s

ListIsOrderOfKeys(u, c) ==
    c.results.List # << >> => c.results.List \in Perms(DOMAIN ParsedQuery(u))

(***************************************************************************)
(* C16: under every interleaving of two Process calls for different URLs   *)
(* on one Runner, the Runner is only read and each call issues the         *)
(* requests and holds the results it has when it runs alone.               *)
(***************************************************************************)
C16_CallsDoNotInterfere ==
    /\ runner.Params = Catalog
    /\ call = Alone(URL, call) /\ ListIsOrderOfKeys(URL, call)
    /\ peer.call = Alone(peer.URL, peer.call) /\ ListIsOrderOfKeys(peer.URL, peer.call)

C16_Witness ==
    /\ peer.URL # URL
    /\ call.pc = "reflect" /\ Len(call.requests) = 1 /\ call.results.Reflected # << >>
    /\ peer.call.pc = "reflect" /\ Len(peer.call.requests) = 1

=============================================================================
